---- MODULE Spec2Model ----
(***************************************************************************)
(* TestKit (src/TestKit.hpp): a tree of Segments and Tasks hanging off a   *)
(* process-wide root, a stack of the Segments whose scope is open, the     *)
(* REQUIRE / CHECK recording macros, Reset and the report generator.       *)
(*                                                                         *)
(* Segments and Tasks are heap objects; they are modelled as the ids       *)
(* 0..MaxNodes, id 0 being __internal_root.  A Segment's m_segments and    *)
(* m_tasks lists own the objects and m_nodes orders them; the model keeps  *)
(* m_nodes (a sequence of ids) and the kind of every id.                   *)
(*                                                                         *)
(* <cassert> makes the two assert() calls build dependent: they abort the  *)
(* process unless NDEBUG is defined.  NDEBUG is chosen in Init.            *)
(***************************************************************************)
EXTENDS Integers, Sequences, FiniteSets, TLC

\* ---------------------------------------------------------------- bounds
MaxNodes == 4

Ids == 0 .. MaxNodes
Root == 0

Outcome == {"None", "Failed", "Passed"}
Abort == "Abort"

SegmentNames == {"A"}
TaskNames == {"t"}
SourceLines == {7}
DetailDepths == {-1, 0, 1}

\* -------------------------------------------------------------- constants
ANSI_RESET == "<reset>"
ANSI_GRAY == "<gray>"
ANSI_GREEN == "<green>"
ANSI_RED == "<red>"
ANSI_DARK_GREEN == "<dark_green>"
ANSI_DARK_RED == "<dark_red>"
ANSI_ITALIC == "<italic>"
CHECK_MARK == "<check>"
CROSS_MARK == "<cross>"
CIRCLE_SYM == "<circle>"
NL == "\n"

VARIABLES
    kind,           \* id -> "free" | "Segment" | "Task"  (which list owns the object)
    m_name,         \* Segment::m_name / Task::m_name
    m_nodes,        \* Segment::m_nodes
    m_didFail,      \* Segment::m_didFail
    m_outcome,      \* Task::m_outcome
    m_source,       \* Task::m_source (the line)
    stack,          \* __internal_segment_stack, bottom first
    detailDepth,    \* __internal_curr_options.detailDepth
    handles,        \* number of SegmentScopeManager objects alive
    NDEBUG,         \* the build: TRUE when assert() is compiled out
    halted,         \* "no", or why the process stopped
    attachFailed,   \* history: m_didFail of the Segment when AddSegment attached it
    allTrue,        \* history: every condition handed to REQUIRE/CHECK in the Segment was true
    requireFailed,  \* history: a REQUIRE of the Segment evaluated its condition to false
    entered,        \* history: per live handle, oldest first, the stack when its scope
                    \* was entered and whether Reset was called since
    lastOp          \* history: the last operation on the tree or the stack

vars == << kind, m_name, m_nodes, m_didFail, m_outcome, m_source, stack,
           detailDepth, handles, NDEBUG, halted, attachFailed, allTrue,
           requireFailed, entered, lastOp >>

tree == << kind, m_name, m_nodes, m_didFail, m_outcome, m_source,
           attachFailed, allTrue, requireFailed >>

\* ------------------------------------------------------------------ Task
\* Task::Build( name, source ): m_outcome keeps its default, Outcome::None
TaskBuildNotRun == "None"

\* TaskBuild with the two results swapped
TaskBuildSwapped(result) == IF result THEN "Failed" ELSE "Passed"

\* Task::Build( name, source, result )
TaskBuild(result) == IF result THEN "Passed" ELSE "Failed"

\* Task::Check
TaskCheck(task) == m_outcome[task]

\* --------------------------------------------------------------- Segment
IsSegment(n) == kind[n] = "Segment"
IsTask(n) == kind[n] = "Task"
Segments == { n \in Ids : IsSegment(n) }
Tasks == { n \in Ids : IsTask(n) }

\* Segment::DidFail
DidFail(segment) == m_didFail[segment]

\* MarkFailed that marks the root segment as well
MarkFailedWithRoot(segment) == [m_didFail EXCEPT ![segment] = TRUE, ![Root] = TRUE]

\* MarkFailed that leaves m_didFail as it is
MarkFailedNoOp(segment) == m_didFail

\* Segment::MarkFailed, as the new m_didFail
MarkFailed(segment) == [m_didFail EXCEPT ![segment] = TRUE]

\* The end of Segment::Check, after the loop saw no Failed node (lines 304-308).
\* The mixed case asserts: the process aborts, or with NDEBUG returns Failed.
CheckVerdict(allPassed, allAreNone) ==
    IF allPassed THEN "Passed"
    ELSE IF allAreNone THEN "None"
    ELSE IF NDEBUG THEN "Failed" ELSE Abort

\* The loop of Segment::Check (lines 292-302) over the results of the nodes'
\* Check(), from node i on.  A node whose Check() aborted ends the process.
RECURSIVE CheckLoop(_, _, _, _)
CheckLoop(outs, i, allPassed, allAreNone) ==
    IF i > Len(outs) THEN CheckVerdict(allPassed, allAreNone)
    ELSE IF outs[i] = Abort THEN Abort
    ELSE IF outs[i] = "Failed" THEN "Failed"
    ELSE CheckLoop(outs, i + 1,
                   allPassed /\ outs[i] = "Passed",
                   allAreNone /\ outs[i] = "None")

\* Segment::Check without its size() == 0 return
AggregateNoEmptyCase(outs) == CheckLoop(outs, 1, TRUE, TRUE)

\* Segment::Check on a list of node results
Aggregate(outs) ==
    IF Len(outs) = 0 THEN "None" ELSE CheckLoop(outs, 1, TRUE, TRUE)

\* Node::Check, dispatched on the node's kind
RECURSIVE Check(_)
Check(n) ==
    IF IsTask(n) THEN TaskCheck(n)
    ELSE Aggregate([i \in 1 .. Len(m_nodes[n]) |-> Check(m_nodes[n][i])])

\* the results of the nodes of a segment, in m_nodes order
ChildOutcomes(segment) ==
    [i \in 1 .. Len(m_nodes[segment]) |-> Check(m_nodes[segment][i])]

\* -------------------------------------------------------- ReportGenerator
\* A std::string is the sequence of its pieces; "\n" is always a piece of its
\* own, and an empty std::string contributes no piece.
Str(s) == IF s = "" THEN << >> ELSE << s >>

\* std::string( depth * 2, ' ' )
Indent(depth) == [i \in 1 .. depth |-> "  "]

\* the int compared as it is, without the cast
U16Signed(x) == x

\* ( uint16_t ) of an int
U16(x) == x % 65536

\* out.ends_with( "\n" )
EndsWithNL(out) == Len(out) > 0 /\ out[Len(out)] = NL

\* ReportGenerator::Stringify( const Task*, int )
StringifyTask(task, depth) ==
    IF depth < 0 THEN << >>
    ELSE LET outcome == TaskCheck(task)
             glyph == IF outcome = "Passed" THEN << ANSI_GREEN, CHECK_MARK >>
                      ELSE IF outcome = "None" THEN << ANSI_GRAY, CIRCLE_SYM >>
                      ELSE << ANSI_RED, CROSS_MARK >>
             where == IF outcome = "Failed"
                      THEN << " ( at file: TestKit.cpp, line: ",
                              ToString(m_source[task]), " )" >>
                      ELSE << >>
         IN  Indent(depth) \o glyph \o << " " >> \o Str(m_name[task])
                 \o where \o << ANSI_RESET >>

\* ReportGenerator::Stringify( const Segment*, int ); RenderNodes is its loop
\* over m_nodes from node i on, `out` being the string so far.  A Check() that
\* aborts the process leaves the piece Abort.
RECURSIVE StringifySegment(_, _), RenderNodes(_, _, _, _)

\* Stringify of a Segment without the `|| outcome == Outcome::Failed` of line 212
StringifySegmentBudgetOnly(segment, depth) ==
    LET outcome == Check(segment)
        start == IF depth < 0 THEN << >> ELSE Indent(depth)
    IN  IF outcome = Abort THEN << Abort >>
        ELSE IF outcome = "None"
        THEN start \o << ANSI_GRAY >> \o Str(m_name[segment]) \o << ANSI_RESET >>
        ELSE LET note == IF outcome = "Passed"
                         THEN << ANSI_ITALIC, ANSI_DARK_GREEN, " [all tests passed]" >>
                         ELSE << ANSI_ITALIC, ANSI_DARK_RED, " [some tests failed]" >>
                 line == start \o Str(m_name[segment]) \o << ":" >> \o note
                             \o << ANSI_RESET >>
                 own == IF depth < 0 THEN << >> ELSE line
                 body == IF depth < U16(detailDepth)
                         THEN RenderNodes(segment, depth, 1, own)
                         ELSE own
             IN  body \o << ANSI_RESET >>

StringifySegment(segment, depth) ==
    LET outcome == Check(segment)
        start == IF depth < 0 THEN << >> ELSE Indent(depth)
    IN  IF outcome = Abort THEN << Abort >>
        ELSE IF outcome = "None"
        THEN start \o << ANSI_GRAY >> \o Str(m_name[segment]) \o << ANSI_RESET >>
        ELSE LET note == IF outcome = "Passed"
                         THEN << ANSI_ITALIC, ANSI_DARK_GREEN, " [all tests passed]" >>
                         ELSE << ANSI_ITALIC, ANSI_DARK_RED, " [some tests failed]" >>
                 line == start \o Str(m_name[segment]) \o << ":" >> \o note
                             \o << ANSI_RESET >>
                 own == IF depth < 0 THEN << >> ELSE line
                 body == IF depth < U16(detailDepth) \/ outcome = "Failed"
                         THEN RenderNodes(segment, depth, 1, own)
                         ELSE own
             IN  body \o << ANSI_RESET >>

RenderNodes(segment, depth, i, out) ==
    IF i > Len(m_nodes[segment]) THEN out
    ELSE LET node == m_nodes[segment][i]
             padded == IF EndsWithNL(out) THEN out ELSE out \o << NL >>
         IN  IF IsSegment(node)
             THEN RenderNodes(segment, depth, i + 1,
                      padded \o << NL >> \o StringifySegment(node, depth + 1) \o << NL >>)
             ELSE IF IsTask(node)
             THEN RenderNodes(segment, depth, i + 1,
                      out \o << NL >> \o StringifyTask(node, depth + 1))
             ELSE RenderNodes(segment, depth, i + 1,
                      out \o << "AAAAGHHHH!!! ERROR... ERROR" >>)

\* report.find_first_not_of( "\n" ): the index of the first other piece, 0 for npos
FindFirstNotOfNL(report) ==
    IF \E i \in 1 .. Len(report) : report[i] # NL
    THEN CHOOSE i \in 1 .. Len(report) :
            /\ report[i] # NL
            /\ \A j \in 1 .. i - 1 : report[j] = NL
    ELSE 0

\* GenerateReport: Abort when a Check() in it aborted; substr( npos ) throws
GenerateReport ==
    LET report == StringifySegment(Root, -1)
        first == FindFirstNotOfNL(report)
    IN  IF \E i \in 1 .. Len(report) : report[i] = Abort THEN << Abort >>
        ELSE IF first = 0 THEN << "std::out_of_range" >>
        ELSE SubSeq(report, first, Len(report))

\* ------------------------------------------------------------ tree changes
\* where the next object is allocated
FreeIds == { n \in Ids : kind[n] = "free" }
NewId == CHOOSE n \in FreeIds : \A o \in FreeIds : n <= o

\* AddSegment without line 271: the new Segment keeps the flag Build gave it
AddSegmentFreshFlag(parent, new, name) ==
    /\ kind' = [kind EXCEPT ![new] = "Segment"]
    /\ m_name' = [m_name EXCEPT ![new] = name]
    /\ m_didFail' = [m_didFail EXCEPT ![new] = FALSE]
    /\ m_nodes' = [m_nodes EXCEPT ![parent] = Append(@, new), ![new] = << >>]

\* Segment::AddSegment of Segment::Build( name ), the new Segment being `new`
AddSegment(parent, new, name) ==
    /\ kind' = [kind EXCEPT ![new] = "Segment"]
    /\ m_name' = [m_name EXCEPT ![new] = name]
    /\ m_didFail' = [m_didFail EXCEPT ![new] = m_didFail[parent]]
    /\ m_nodes' = [m_nodes EXCEPT ![parent] = Append(@, new), ![new] = << >>]

\* AddTask that puts the new Task in front of m_nodes
AddTaskInFront(segment, new, msg, line, outcome) ==
    /\ kind' = [kind EXCEPT ![new] = "Task"]
    /\ m_name' = [m_name EXCEPT ![new] = msg]
    /\ m_source' = [m_source EXCEPT ![new] = line]
    /\ m_outcome' = [m_outcome EXCEPT ![new] = outcome]
    /\ m_nodes' = [m_nodes EXCEPT ![segment] = << new >> \o @]

\* Segment::AddTask of a built Task, the new Task being `new`
AddTask(segment, new, msg, line, outcome) ==
    /\ kind' = [kind EXCEPT ![new] = "Task"]
    /\ m_name' = [m_name EXCEPT ![new] = msg]
    /\ m_source' = [m_source EXCEPT ![new] = line]
    /\ m_outcome' = [m_outcome EXCEPT ![new] = outcome]
    /\ m_nodes' = [m_nodes EXCEPT ![segment] = Append(@, new)]

\* REQUIRE without its MarkFailed call
TK_REQUIRE_2_NoMark(top, c) ==
    IF DidFail(top)
    THEN [didFail |-> m_didFail, outcome |-> TaskBuildNotRun, evals |-> 0]
    ELSE [didFail |-> m_didFail, outcome |-> TaskBuild(c), evals |-> 1]

\* CHECK with the MarkFailed call of REQUIRE
TK_CHECK_2_Marks(top, c) ==
    IF DidFail(top)
    THEN [didFail |-> m_didFail, outcome |-> TaskBuildNotRun, evals |-> 0]
    ELSE [didFail |-> IF ~c THEN MarkFailed(top) ELSE m_didFail,
          outcome |-> TaskBuild(c), evals |-> 1]

\* REQUIRE without `bool c`: the condition is written out in the test and
\* again in the call of Task::Build
TK_REQUIRE_2_NoCache(top, c) ==
    IF DidFail(top)
    THEN [didFail |-> m_didFail, outcome |-> TaskBuildNotRun, evals |-> 0]
    ELSE [didFail |-> IF ~c THEN MarkFailed(top) ELSE m_didFail,
          outcome |-> TaskBuild(c), evals |-> 2]

\* __INTERNAL_TK_REQUIRE_2 on the segment `top` with the condition's value c:
\* the m_didFail it leaves, the outcome of the Task it builds, and how many
\* times the expression `condition` is evaluated on the path taken
TK_REQUIRE_2(top, c) ==
    IF DidFail(top)
    THEN [didFail |-> m_didFail, outcome |-> TaskBuildNotRun, evals |-> 0]
    ELSE [didFail |-> IF ~c THEN MarkFailed(top) ELSE m_didFail,
          outcome |-> TaskBuild(c), evals |-> 1]

\* __INTERNAL_TK_CHECK_2, likewise: it never calls MarkFailed
TK_CHECK_2(top, c) ==
    IF DidFail(top)
    THEN [didFail |-> m_didFail, outcome |-> TaskBuildNotRun, evals |-> 0]
    ELSE [didFail |-> m_didFail, outcome |-> TaskBuild(c), evals |-> 1]

\* std::stack::pop that removes nothing
PopNothing(stk) == stk

\* std::stack::pop on a stack that holds an entry
Pop(stk) == SubSeq(stk, 1, Len(stk) - 1)

\* __internal_segment_stack.top().  On an empty stack it is undefined
\* behaviour: the pointer it yields may be that of any Segment (or the process
\* crashes, see Crash).
Tops ==
    IF Len(stack) > 0 THEN { stack[Len(stack)] } ELSE Segments

Op(name, top, node, c) ==
    [op |-> name, top |-> top, node |-> node, c |-> c, evals |-> 0]

\* ---------------------------------------------------------------- actions
Init ==
    /\ kind = [n \in Ids |-> IF n = Root THEN "Segment" ELSE "free"]
    /\ m_name = [n \in Ids |-> ""]
    /\ m_nodes = [n \in Ids |-> << >>]
    /\ m_didFail = [n \in Ids |-> FALSE]
    /\ m_outcome = [n \in Ids |-> "None"]
    /\ m_source = [n \in Ids |-> 0]
    /\ stack = << Root >>
    /\ detailDepth = -1
    /\ handles = 0
    /\ NDEBUG \in BOOLEAN
    /\ halted = "no"
    /\ attachFailed = [n \in Ids |-> FALSE]
    /\ allTrue = [n \in Ids |-> TRUE]
    /\ requireFailed = [n \in Ids |-> FALSE]
    /\ entered = << >>
    /\ lastOp = Op("Init", Root, Root, TRUE)

\* SegmentScopeManager::SegmentScopeManager( name ), through SECTION( name ).
\* The number of live handles is bounded with the number of objects.
ScopeEnter(name) ==
    /\ halted = "no"
    /\ FreeIds # {}
    /\ handles < MaxNodes
    /\ \E top \in Tops :
        /\ AddSegment(top, NewId, name)
        /\ stack' = Append(stack, NewId)
        /\ attachFailed' = [attachFailed EXCEPT ![NewId] = m_didFail[top]]
        /\ lastOp' = Op("ScopeEnter", top, NewId, TRUE)
    /\ handles' = handles + 1
    /\ entered' = Append(entered, [stack |-> stack, reset |-> FALSE])
    /\ UNCHANGED << m_outcome, m_source, detailDepth, NDEBUG, halted, allTrue,
                    requireFailed >>

\* SegmentScopeManager::~SegmentScopeManager of the handle created last.  When
\* the assert fails the process aborts; with NDEBUG the pop goes on: it empties
\* a stack of one entry, and on an empty stack (undefined behaviour) it leaves
\* the stack empty or crashes (see Crash).
ScopeExit ==
    /\ halted = "no"
    /\ handles > 0
    /\ lastOp' = Op("ScopeExit", Root, Root, ~entered[Len(entered)].reset)
    /\ IF Len(stack) > 1
       THEN /\ stack' = Pop(stack)
            /\ handles' = handles - 1
            /\ entered' = SubSeq(entered, 1, Len(entered) - 1)
            /\ halted' = halted
       ELSE IF ~NDEBUG
       THEN /\ halted' = "assert size > 1"
            /\ UNCHANGED << stack, handles, entered >>
       ELSE /\ stack' = << >>
            /\ handles' = handles - 1
            /\ entered' = SubSeq(entered, 1, Len(entered) - 1)
            /\ halted' = halted
    /\ UNCHANGED << tree, detailDepth, NDEBUG >>

\* REQUIRE( msg, condition ), the condition's value being c
Require(msg, line, c) ==
    /\ halted = "no"
    /\ FreeIds # {}
    /\ \E top \in Tops :
        /\ m_didFail' = TK_REQUIRE_2(top, c).didFail
        /\ AddTask(top, NewId, msg, line, TK_REQUIRE_2(top, c).outcome)
        /\ allTrue' = [allTrue EXCEPT ![top] = @ /\ c]
        /\ requireFailed' = [requireFailed EXCEPT ![top] = @ \/ (~DidFail(top) /\ ~c)]
        /\ lastOp' = [Op("REQUIRE", top, NewId, c) EXCEPT
                          !.evals = TK_REQUIRE_2(top, c).evals]
    /\ UNCHANGED << stack, detailDepth, handles, NDEBUG, halted, attachFailed,
                    entered >>

\* CHECK( msg, condition )
CheckMacro(msg, line, c) ==
    /\ halted = "no"
    /\ FreeIds # {}
    /\ \E top \in Tops :
        /\ m_didFail' = TK_CHECK_2(top, c).didFail
        /\ AddTask(top, NewId, msg, line, TK_CHECK_2(top, c).outcome)
        /\ allTrue' = [allTrue EXCEPT ![top] = @ /\ c]
        /\ lastOp' = [Op("CHECK", top, NewId, c) EXCEPT
                          !.evals = TK_CHECK_2(top, c).evals]
    /\ UNCHANGED << stack, detailDepth, handles, NDEBUG, halted, attachFailed,
                    requireFailed, entered >>

\* Reset without line 337: the root's flag is not cleared
ResetKeepsDidFail == m_didFail[Root]

\* what Reset leaves of the root's flag and of the stack
ResetDidFail == FALSE
ResetStack == << Root >>

\* TestKit::Reset: the root's lists are cleared, which destroys every other object
Reset ==
    /\ halted = "no"
    /\ kind' = [n \in Ids |-> IF n = Root THEN "Segment" ELSE "free"]
    /\ m_name' = [n \in Ids |-> IF n = Root THEN m_name[Root] ELSE ""]
    /\ m_nodes' = [n \in Ids |-> << >>]
    /\ m_didFail' = [n \in Ids |-> IF n = Root THEN ResetDidFail ELSE FALSE]
    /\ m_outcome' = [n \in Ids |-> "None"]
    /\ m_source' = [n \in Ids |-> 0]
    /\ stack' = ResetStack
    /\ attachFailed' = [n \in Ids |-> FALSE]
    /\ allTrue' = [n \in Ids |-> TRUE]
    /\ requireFailed' = [n \in Ids |-> FALSE]
    /\ entered' = [i \in 1 .. Len(entered) |-> [stack |-> << >>, reset |-> TRUE]]
    /\ lastOp' = Op("Reset", Root, Root, TRUE)
    /\ UNCHANGED << detailDepth, handles, NDEBUG, halted >>

\* TestKit::SetNewOptions
SetNewOptions(newDetailDepth) ==
    /\ halted = "no"
    /\ detailDepth' = newDetailDepth
    /\ UNCHANGED << tree, stack, handles, NDEBUG, halted, entered, lastOp >>

\* GenerateReport that puts the options back to their default once it rendered
ReportCallRestoringOptions ==
    /\ halted = "no"
    /\ detailDepth' = -1
    /\ UNCHANGED << tree, stack, handles, NDEBUG, entered, lastOp >>
    /\ halted' = IF GenerateReport = << Abort >> THEN "assert mixed" ELSE halted

\* a call of TestKit::GenerateReport: it returns, or a Check() in it aborts
ReportCall ==
    /\ halted = "no"
    /\ UNCHANGED << tree, stack, detailDepth, handles, NDEBUG, entered, lastOp >>
    /\ halted' = IF GenerateReport = << Abort >> THEN "assert mixed" ELSE halted

\* a call of Segment::Check, which returns or aborts.  The members of a
\* Segment are private: the Segments a caller can name are the root and
\* __internal_segment_stack.top()
CheckCall(segment) ==
    /\ halted = "no"
    /\ segment \in {Root} \cup Tops
    /\ UNCHANGED << tree, stack, detailDepth, handles, NDEBUG, entered, lastOp >>
    /\ halted' = IF Check(segment) = Abort THEN "assert mixed" ELSE halted

\* top() or pop() of the empty stack crashes the process
Crash ==
    /\ halted = "no"
    /\ Len(stack) = 0
    /\ halted' = "crash"
    /\ UNCHANGED << tree, stack, detailDepth, handles, NDEBUG, entered, lastOp >>

Next ==
    \/ \E name \in SegmentNames : ScopeEnter(name)
    \/ ScopeExit
    \/ \E msg \in TaskNames, line \in SourceLines, c \in BOOLEAN : Require(msg, line, c)
    \/ \E msg \in TaskNames, line \in SourceLines, c \in BOOLEAN : CheckMacro(msg, line, c)
    \/ Reset
    \/ \E d \in DetailDepths : SetNewOptions(d)
    \/ ReportCall
    \/ \E segment \in Ids : CheckCall(segment)
    \/ Crash

Spec == Init /\ [][Next]_vars

TypeOK ==
    /\ kind \in [Ids -> {"free", "Segment", "Task"}]
    /\ m_didFail \in [Ids -> BOOLEAN]
    /\ m_outcome \in [Ids -> Outcome]
    /\ \A i \in 1 .. Len(stack) : stack[i] \in Ids
    /\ detailDepth \in DetailDepths
    /\ handles \in 0 .. MaxNodes
    /\ NDEBUG \in BOOLEAN

\* ----------------------------------------------------------------- helpers
\* the nodes of the subtree of n, n included
RECURSIVE Subtree(_)
Subtree(n) ==
    {n} \cup UNION { Subtree(m_nodes[n][i]) : i \in 1 .. Len(m_nodes[n]) }

\* the positions of the Tasks with the given outcome among the nodes of a segment
TaskAt(segment, outcome) ==
    { i \in 1 .. Len(m_nodes[segment]) :
        IsTask(m_nodes[segment][i]) /\ m_outcome[m_nodes[segment][i]] = outcome }

\* the direct nodes of a segment mix Passed and None, and none is Failed:
\* the case that reaches the assert of Segment::Check
Mixed(segment) ==
    LET outs == ChildOutcomes(segment)
        has(o) == \E i \in 1 .. Len(outs) : outs[i] = o
    IN  has("Passed") /\ has("None") /\ ~has("Failed")

\* a step of REQUIRE or CHECK
RecordStep ==
    \E msg \in TaskNames, line \in SourceLines, c \in BOOLEAN :
        Require(msg, line, c) \/ CheckMacro(msg, line, c)

\* ------------------------------------------------------------------ claims

C3_SameEffect ==
    \A top \in Segments : \A c \in BOOLEAN : TK_REQUIRE_2(top, c) = TK_CHECK_2(top, c)

\* C3 (amended): on the same state and condition REQUIRE and CHECK build a
\* Task of the same outcome; they leave the same flags exactly when the
\* condition is true or the segment's flag is already set: a false condition
\* makes REQUIRE set the flag, and CHECK never changes a flag.
C3_SameOutcomeOnlyRequireMarks ==
    /\ [](\A top \in Segments : \A c \in BOOLEAN :
            /\ TK_REQUIRE_2(top, c).outcome = TK_CHECK_2(top, c).outcome
            /\ TK_CHECK_2(top, c).didFail = m_didFail
            /\ (TK_REQUIRE_2(top, c).didFail = TK_CHECK_2(top, c).didFail)
                   <=> (c \/ m_didFail[top]))
    /\ [][ \A msg \in TaskNames, line \in SourceLines, c \in BOOLEAN :
             /\ CheckMacro(msg, line, c) => m_didFail' = m_didFail
             /\ Require(msg, line, c) /\ ~c => m_didFail'[lastOp'.top] ]_vars

\* C3 witness: a CHECK evaluated false, stored a Failed Task and left the
\* segment's flag false
C3_Witness ==
    /\ lastOp.op = "CHECK"
    /\ ~lastOp.c
    /\ m_outcome[lastOp.node] = "Failed"
    /\ ~m_didFail[lastOp.top]

\* C4 (as claimed): the scope stack is never empty, its bottom is the root and
\* every entry is a live Segment of the tree under the root.
C4_ScopeStackInvariant ==
    /\ Len(stack) > 0
    /\ stack[1] = Root
    /\ \A i \in 1 .. Len(stack) : IsSegment(stack[i]) /\ stack[i] \in Subtree(Root)

\* C5 (as claimed): with handles released in LIFO order the stack depth is
\* above 1 at every release, Reset with live handles included, and Reset
\* leaves no error state.
C5_ExitPrecondition ==
    [][ /\ ScopeExit => Len(stack) > 1
        /\ Reset => halted' = "no" ]_vars

\* the report of the root as constructed, before anything is recorded
FreshReport == << ANSI_GRAY, ANSI_RESET >>

\* C6: Reset yields the freshly initialised state from any state: the root
\* has no children and a false flag, no other object is left, the stack holds
\* exactly the root, and GenerateReport returns what it returns on the root as
\* constructed.
C6_ResetYieldsFresh ==
    /\ lastOp.op = "Init" => GenerateReport = FreshReport
    /\ lastOp.op = "Reset" =>
          /\ m_nodes[Root] = << >>
          /\ ~m_didFail[Root]
          /\ Segments = {Root}
          /\ Tasks = {}
          /\ stack = << Root >>
          /\ halted = "no"
          /\ GenerateReport = FreshReport

\* C6 witness: Reset was called inside an open scope, so on a tree that held
\* at least that scope's segment
C6_Witness ==
    /\ lastOp.op = "Reset"
    /\ handles > 0
    /\ detailDepth = 0

\* C7: Segment::Check, on every list of outcomes its nodes return: NotRun on
\* the empty list, Failed when some node is Failed, Passed when all are
\* Passed, NotRun when all are NotRun.  A Task's Check() is the outcome it was
\* built with: NotRun without a result, else Passed / Failed from the boolean,
\* and it never changes.
C7_SegmentCheckCases ==
    /\ [](\A s \in Segments :
            LET outs == ChildOutcomes(s)
                n == Len(outs)
            IN  (\A i \in 1 .. n : outs[i] \in Outcome) =>
                  /\ n = 0 => Check(s) = "None"
                  /\ (\E i \in 1 .. n : outs[i] = "Failed") => Check(s) = "Failed"
                  /\ (n > 0 /\ \A i \in 1 .. n : outs[i] = "Passed") => Check(s) = "Passed"
                  /\ (n > 0 /\ \A i \in 1 .. n : outs[i] = "None") => Check(s) = "None")
    /\ [](\A t \in Tasks : Check(t) = m_outcome[t])
    /\ [][ RecordStep =>
             m_outcome'[lastOp'.node] =
                IF m_didFail[lastOp'.top] THEN "None"
                ELSE IF lastOp'.c THEN "Passed" ELSE "Failed" ]_vars
    /\ [][ \A t \in Tasks : ~Reset => Check(t)' = Check(t) ]_vars

\* C7 witness: a segment whose nodes return NotRun, Failed and Passed in that
\* order, a sub-segment among them, and which checks to Failed
C7_Witness ==
    \E s \in Segments :
        /\ Len(m_nodes[s]) = 3
        /\ IsSegment(m_nodes[s][1])
        /\ ChildOutcomes(s) = << "None", "Failed", "Passed" >>
        /\ Check(s) = "Failed"

TaskPositions(segment) ==
    { i \in 1 .. Len(m_nodes[segment]) : IsTask(m_nodes[segment][i]) }

\* the nodes of the segment are assertions only, at least one
OnlyAssertions(segment) ==
    /\ Len(m_nodes[segment]) > 0
    /\ TaskPositions(segment) = 1 .. Len(m_nodes[segment])

\* C9 (as claimed): a segment in which assertions were recorded, none with a
\* false condition, checks to Passed.
C9_NoFailurePasses ==
    \A s \in Segments :
        OnlyAssertions(s) /\ allTrue[s] => Check(s) = "Passed"

\* C9 (amended): a segment whose flag was false when it was attached and in
\* which assertions were recorded, none with a false condition, checks to
\* Passed, its sub-segments (if it has any) checking to Passed too; when the
\* flag was true at attach time (the scope was entered after its parent
\* failed) the same assertions are stored NotRun and a segment holding only
\* them checks to NotRun.  (The root is attached with a false flag.)
C9_NoFailurePassesUnlessPreFailed ==
    \A s \in Segments :
        /\ ( /\ TaskPositions(s) # {}
             /\ allTrue[s]
             /\ ~attachFailed[s]
             /\ \A i \in 1 .. Len(m_nodes[s]) :
                  IsSegment(m_nodes[s][i]) => Check(m_nodes[s][i]) = "Passed" )
           => Check(s) = "Passed"
        /\ (OnlyAssertions(s) /\ allTrue[s] /\ attachFailed[s]) => Check(s) = "None"

\* C9 witness: three assertions with true conditions, by both macros, in a
\* nested segment that checks to Passed
C9_Witness ==
    \E s \in Segments \ {Root} :
        /\ OnlyAssertions(s)
        /\ Len(m_nodes[s]) = 3
        /\ allTrue[s]
        /\ ~attachFailed[s]
        /\ lastOp.op = "CHECK"
        /\ lastOp.top = s
        /\ Check(s) = "Passed"

\* C10: a scope entered while the current segment's flag is true gets a
\* segment whose flag is already true, so every assertion recorded in it, and
\* in the scopes entered inside it, is a NotRun Task; a scope entered while
\* the flag is false gets a segment whose flag is false.
C10_ChildInheritsFlag ==
    /\ [][ \A name \in SegmentNames :
             ScopeEnter(name) =>
                /\ m_didFail'[lastOp'.node] = m_didFail[lastOp'.top]
                /\ m_nodes'[lastOp'.top] = Append(m_nodes[lastOp'.top], lastOp'.node) ]_vars
    /\ [](\A s \in Segments :
            attachFailed[s] =>
                /\ m_didFail[s]
                /\ \A i \in 1 .. Len(m_nodes[s]) :
                     /\ IsTask(m_nodes[s][i]) => m_outcome[m_nodes[s][i]] = "None"
                     /\ IsSegment(m_nodes[s][i]) => attachFailed[m_nodes[s][i]])

\* C10 witness: an assertion with a true condition stored NotRun in a scope
\* nested in a scope that was entered after the failure of its parent
C10_Witness ==
    \E p \in Segments \ {Root} : \E s \in Segments :
        /\ attachFailed[p]
        /\ \E i \in 1 .. Len(m_nodes[p]) : m_nodes[p][i] = s
        /\ lastOp.op \in {"REQUIRE", "CHECK"}
        /\ lastOp.top = s
        /\ lastOp.c
        /\ m_outcome[lastOp.node] = "None"

\* -------------------------------------------------------- report helpers
\* the Segment whose m_nodes holds n
Parent(n) ==
    CHOOSE p \in Segments : \E i \in 1 .. Len(m_nodes[p]) : m_nodes[p][i] = n

\* the depth GenerateReport renders n at: the root at -1, a node one deeper
\* than the Segment that holds it
RECURSIVE Depth(_)
Depth(n) == IF n = Root THEN -1 ELSE Depth(Parent(n)) + 1

\* the pieces of a string
Pieces(out) == { out[i] : i \in 1 .. Len(out) }

\* the rendering of a segment goes on after its own line: every node rendered
\* under it starts on a new line
ChildrenShown(segment) == NL \in Pieces(StringifySegment(segment, Depth(segment)))

\* the depth is within the detailDepth budget, -1 standing for no limit
WithinBudget(depth) == detailDepth = -1 \/ depth < detailDepth

Occurs(sub, out) ==
    \E k \in 0 .. Len(out) - Len(sub) : SubSeq(out, k + 1, k + Len(sub)) = sub

\* how many times the piece p is in `out`
CountPiece(out, p) == Cardinality({ i \in 1 .. Len(out) : out[i] = p })

\* the Tasks whose outcome is Failed
FailedTasks == { t \in Tasks : m_outcome[t] = "Failed" }

\* the line of a Failed Task in the report: indent, red cross, name, location
FailedLine(task) ==
    Indent(Depth(task)) \o << ANSI_RED, CROSS_MARK, " " >> \o Str(m_name[task])
        \o << " ( at file: TestKit.cpp, line: ", ToString(m_source[task]), " )",
              ANSI_RESET >>

\* C12: with detailDepth = 0, whenever GenerateReport returns a report, every
\* segment below the root whose outcome is not Failed is one summary line with
\* no children under it, every Failed segment is expanded, and every Failed
\* Task of the tree is in the report, once, with its source location.
C12_ZeroDepthShowsEveryFailure ==
    LET report == GenerateReport
    IN  detailDepth = 0 /\ report # << Abort >> =>
            /\ \A s \in Segments :
                  LET outcome == Check(s)
                      shown == ChildrenShown(s)
                  IN  /\ s # Root /\ outcome # "Failed" => ~shown
                      /\ outcome = "Failed" /\ Len(m_nodes[s]) > 0 => shown
            /\ \A t \in FailedTasks : Occurs(FailedLine(t), report)
            /\ CountPiece(report, CROSS_MARK) = Cardinality(FailedTasks)

\* C12 witness: detailDepth is 0, a Failed Task sits in a scope below the
\* root, a Passed segment that holds a Task is collapsed, and the report is
\* returned
C12_Witness ==
    /\ detailDepth = 0
    /\ GenerateReport # << Abort >>
    /\ \E t \in FailedTasks : Depth(t) >= 1 /\ Occurs(FailedLine(t), GenerateReport)
    /\ \E s \in Segments \ {Root} :
          /\ Check(s) = "Passed"
          /\ \E i \in 1 .. Len(m_nodes[s]) : IsTask(m_nodes[s][i])
          /\ ~ChildrenShown(s)

\* C13 (as claimed): in every state the failed flag of a segment is true
\* exactly when an assertion recorded directly in it (REQUIRE or CHECK)
\* evaluated false, which left a Failed Task there, or the flag was already
\* true when the segment was attached.
C13_FlagIffAnyFalseAssertion ==
    \A s \in Segments :
        m_didFail[s] <=> (TaskAt(s, "Failed") # {} \/ attachFailed[s])

\* C13 (amended): in every state the failed flag of a segment is true exactly
\* when a REQUIRE recorded directly in it evaluated false or the flag was
\* already true when the segment was attached; a CHECK leaves every flag as
\* it is, whatever its condition; a flag that is true stays true until Reset.
C13_FlagIffFalseRequire ==
    /\ [](\A s \in Segments : m_didFail[s] <=> (requireFailed[s] \/ attachFailed[s]))
    /\ [][ (\E msg \in TaskNames, line \in SourceLines, c \in BOOLEAN :
                CheckMacro(msg, line, c)) => m_didFail' = m_didFail ]_vars
    /\ [][ \A s \in Segments : m_didFail[s] /\ ~Reset => m_didFail'[s] ]_vars

\* C13 witness: a segment holds the Failed Task of a false CHECK and its flag
\* is false, while another segment, attached with a false flag, has its flag
\* set by a false REQUIRE
C13_Witness ==
    /\ \E s \in Segments :
          /\ TaskAt(s, "Failed") # {}
          /\ ~m_didFail[s]
    /\ \E s \in Segments :
          /\ requireFailed[s]
          /\ ~attachFailed[s]
          /\ m_didFail[s]

\* C14: entering a scope while the stack has a top creates exactly one object,
\* an empty Segment with the given name, appends it to the nodes of the top
\* segment and to no other, and pushes exactly it; releasing a handle since
\* whose creation Reset was not called pops exactly one entry, without
\* aborting, and leaves the stack as it was when the handle's scope was
\* entered, whatever was entered, recorded and released inside the block.
C14_ScopesBalanced ==
    /\ [][ \A name \in SegmentNames :
             ScopeEnter(name) /\ Len(stack) > 0 =>
                LET top == stack[Len(stack)]
                    new == lastOp'.node
                IN  /\ kind[new] = "free"
                    /\ \A n \in Ids \ {new} : kind'[n] = kind[n]
                    /\ kind'[new] = "Segment"
                    /\ m_name'[new] = name
                    /\ m_nodes'[new] = << >>
                    /\ m_nodes'[top] = Append(m_nodes[top], new)
                    /\ \A n \in Ids \ {top, new} : m_nodes'[n] = m_nodes[n]
                    /\ stack' = Append(stack, new) ]_vars
    /\ [][ ScopeExit /\ ~entered[Len(entered)].reset =>
                /\ halted' = "no"
                /\ Len(stack') = Len(stack) - 1
                /\ \A i \in 1 .. Len(stack') : stack'[i] = stack[i]
                /\ stack' = entered[Len(entered)].stack ]_vars

\* C14 witness: a scope entered inside an open scope, with an assertion
\* recorded in it, was released without a Reset since its entry; the outer
\* scope is still open
C14_Witness ==
    /\ lastOp.op = "ScopeExit"
    /\ lastOp.c
    /\ halted = "no"
    /\ Len(stack) = 2
    /\ \E i \in 1 .. Len(m_nodes[stack[2]]) :
          LET inner == m_nodes[stack[2]][i]
          IN  /\ IsSegment(inner)
              /\ \E j \in 1 .. Len(m_nodes[inner]) : IsTask(m_nodes[inner][j])

\* C15: a REQUIRE or CHECK issued while the stack has a top creates exactly
\* one object, a Task, appends it to the nodes of the top segment, and may set
\* that segment's flag; it leaves the stack, the nodes and the flag of every
\* other segment and every Task recorded before as they were.  So a failure
\* recorded in a nested scope sets no flag of an ancestor or a sibling, and an
\* assertion recorded in a segment whose flag is false is evaluated: its Task
\* is Passed or Failed by its condition.
C15_RecordTouchesOnlyTop ==
    [][ RecordStep /\ Len(stack) > 0 =>
            LET top == stack[Len(stack)]
                new == lastOp'.node
            IN  /\ lastOp'.top = top
                /\ kind[new] = "free"
                /\ kind'[new] = "Task"
                /\ \A n \in Ids \ {new} :
                      /\ kind'[n] = kind[n]
                      /\ m_outcome'[n] = m_outcome[n]
                      /\ m_name'[n] = m_name[n]
                /\ m_nodes'[top] = Append(m_nodes[top], new)
                /\ m_didFail[top] => m_didFail'[top]
                /\ \A n \in Ids \ {top} :
                      /\ m_nodes'[n] = m_nodes[n]
                      /\ m_didFail'[n] = m_didFail[n]
                /\ stack' = stack
                /\ ~m_didFail[top] =>
                      m_outcome'[new] = IF lastOp'.c THEN "Passed" ELSE "Failed" ]_vars

\* C15 witness: a REQUIRE failed in a nested scope and set that segment's
\* flag; the flag of the segment that holds it is false and an assertion
\* recorded there afterwards was evaluated and Passed
C15_Witness ==
    /\ lastOp.op \in {"REQUIRE", "CHECK"}
    /\ Len(stack) > 0
    /\ lastOp.top = stack[Len(stack)]
    /\ ~m_didFail[lastOp.top]
    /\ m_outcome[lastOp.node] = "Passed"
    /\ \E i \in 1 .. Len(m_nodes[lastOp.top]) :
          LET inner == m_nodes[lastOp.top][i]
          IN  /\ IsSegment(inner)
              /\ requireFailed[inner]
              /\ m_didFail[inner]
              /\ m_nodes[lastOp.top][Len(m_nodes[lastOp.top])] = lastOp.node

\* what the rendering of node i of a segment adds to the segment's string: a
\* Task is a new line; a Segment is a block set off by an empty line before
\* it (unless the Segment before it left one) and closed by a new line
ChildBlock(segment, depth, i) ==
    LET node == m_nodes[segment][i]
        pad == IF i > 1 /\ IsSegment(m_nodes[segment][i - 1]) THEN << >> ELSE << NL >>
    IN  IF IsSegment(node)
        THEN pad \o << NL >> \o StringifySegment(node, depth + 1) \o << NL >>
        ELSE << NL >> \o StringifyTask(node, depth + 1)

\* the blocks of the nodes i, i + 1, ... of a segment, one after the other
RECURSIVE ChildBlocks(_, _, _)
ChildBlocks(segment, depth, i) ==
    IF i > Len(m_nodes[segment]) THEN << >>
    ELSE ChildBlock(segment, depth, i) \o ChildBlocks(segment, depth, i + 1)

\* C16: in every step but Reset, the nodes of every segment stay as they are
\* or get the object the step creates appended at their end, so tasks and
\* sub-segments stay interleaved in the order they were issued and none is
\* removed or moved; every Task stays a Task with the outcome it was built
\* with; and the rendering of an expanded segment of two nodes or more is its
\* own line followed by the renderings of its nodes in m_nodes order.
C16_AppendOnlyOrdered ==
    /\ [][ \/ /\ \A s \in Segments :
                    /\ kind'[s] = "Segment"
                    /\ \/ m_nodes'[s] = m_nodes[s]
                       \/ /\ kind[lastOp'.node] = "free"
                          /\ m_nodes'[s] = Append(m_nodes[s], lastOp'.node)
              /\ \A t \in Tasks :
                    /\ kind'[t] = "Task"
                    /\ m_outcome'[t] = m_outcome[t]
           \/ Reset ]_vars
    /\ [](\A s \in Segments :
            Len(m_nodes[s]) >= 2 =>
                LET depth == Depth(s)
                    out == StringifySegment(s, depth)
                IN  NL \in Pieces(out) =>
                        LET blocks == ChildBlocks(s, depth, 1)
                        IN  /\ Len(out) > Len(blocks)
                            /\ SubSeq(out, Len(out) - Len(blocks), Len(out) - 1) = blocks)

\* C16 witness: an expanded segment holds a Passed Task, then a sub-segment,
\* then a Failed Task
C16_Witness ==
    \E s \in Segments :
        /\ ChildrenShown(s)
        /\ Len(m_nodes[s]) = 3
        /\ IsTask(m_nodes[s][1]) /\ m_outcome[m_nodes[s][1]] = "Passed"
        /\ IsSegment(m_nodes[s][2])
        /\ IsTask(m_nodes[s][3]) /\ m_outcome[m_nodes[s][3]] = "Failed"

\* C17: a REQUIRE or a CHECK evaluates its condition exactly once when the
\* flag of the segment it records in is false, and not at all when that flag
\* is true; so never more than once.
C17_ConditionEvaluatedAtMostOnce ==
    [][ RecordStep =>
            /\ lastOp'.evals = IF m_didFail[lastOp'.top] THEN 0 ELSE 1
            /\ lastOp'.evals <= 1 ]_vars

\* C17 witness: a REQUIRE was recorded in a segment whose flag was false and
\* evaluated its false condition once, and another segment, whose flag is
\* true, holds the NotRun Task of an assertion that evaluated nothing
C17_Witness ==
    /\ lastOp.op = "REQUIRE"
    /\ lastOp.evals = 1
    /\ ~lastOp.c
    /\ m_outcome[lastOp.node] = "Failed"
    /\ \E s \in Segments \ {lastOp.top} :
          /\ m_didFail[s]
          /\ TaskAt(s, "None") # {}

\* the recorded state: the tree with its flags, the stack and the options
recorded == << kind, m_name, m_nodes, m_didFail, m_outcome, m_source, stack,
              detailDepth >>

\* C18: a call of Segment::Check or of GenerateReport, in any state, scopes
\* open or not, leaves the tree, every flag, the stack and the options as
\* they were.  Check and Stringify read nothing but the tree, the options and
\* the build, so a second call right after the first one finds what the first
\* one found and returns the same result.
C18_CheckAndReportArePure ==
    [][ \/ recorded' = recorded /\ NDEBUG' = NDEBUG
        \/ ~(ReportCall \/ \E segment \in Ids : CheckCall(segment)) ]_vars

\* C18 witness: a state with two scopes open, a set flag and a Failed Task in
\* which both calls return, GenerateReport with a report that shows the Failed
\* Task; by the claim a call leaves this very state behind
C18_Witness ==
    /\ halted = "no"
    /\ Len(stack) = 3
    /\ detailDepth = 0
    /\ \E s \in Segments : m_didFail[s]
    /\ Check(Root) = "Failed"
    /\ ENABLED ReportCall
    /\ \E t \in FailedTasks : Occurs(FailedLine(t), GenerateReport)

\* C19 (as claimed): in every reachable state, a segment whose subtree holds
\* no Failed Task does not check to Failed, and its line in the report does
\* not carry " [some tests failed]".
C19_FailedOnlyWithFailedTask ==
    \A s \in Segments :
        Subtree(s) \cap FailedTasks = {} =>
            /\ Check(s) # "Failed"
            /\ " [some tests failed]" \notin Pieces(StringifySegment(s, Depth(s)))

====
